---- MODULE Spec2Model ----
(***************************************************************************)
(* Model of verifier/src/x509.rs: construction of TrustAnchor,             *)
(* UnverifiedCertChain and CertificateRevocationList from encoded entries, *)
(* UnverifiedCertChain::verify (a call of mbedtls'                         *)
(* Certificate::verify_with_profile with the profile built in verify) and  *)
(* VerifiedCertChain::leaf.                                                *)
(*                                                                         *)
(* The chain walk, the parent search and the CRL check are the ones the    *)
(* call at x509.rs:110-116 runs (mbedtls x509_crt_verify_chain,            *)
(* x509_crt_find_parent, x509_crt_verifycrl).  All certificates are        *)
(* version 3 without a path length constraint, and the validation time     *)
(* lies inside every validity window.                                      *)
(***************************************************************************)
EXTENDS Integers, Sequences, FiniteSets, TLC

VARIABLES
    anchor_in,      \* the entry given to TrustAnchor::try_from_pem/der
    chain_in,       \* the entries given to UnverifiedCertChain::try_from_pem/der
    crl_in,         \* the entries given to CertificateRevocationList::try_from_pem/der
    trust_anchor,   \* Result<TrustAnchor>
    cert_chain,     \* Result<UnverifiedCertChain>
    crl,            \* Result<CertificateRevocationList>
    verified,       \* Result<VerifiedCertChain> of verify
    leaf_out        \* Option<X509Certificate> of the last leaf() call

vars == <<anchor_in, chain_in, crl_in, trust_anchor, cert_chain, crl, verified, leaf_out>>

(***************************************************************************)
(* Bounds of the model.                                                    *)
(***************************************************************************)
MaxChain == 3       \* most entries given to UnverifiedCertChain::try_from_*
MaxCrls == 2        \* most entries given to CertificateRevocationList::try_from_*

(***************************************************************************)
(* Result and Option values.                                               *)
(***************************************************************************)
Unset == [st |-> "unset"]
Ok(v) == [st |-> "ok", val |-> v]
Err == [st |-> "err"]               \* Error::MbedTls(_)
Some(v) == [st |-> "some", val |-> v]
None == [st |-> "none"]

(***************************************************************************)
(* The profile built by verify.                                            *)
(***************************************************************************)
RsaMinBits == 2048

Profile ==
    [ allowed_mds    |-> {"Sha256", "Sha384", "Sha512"},
      allowed_pks    |-> {"Rsa", "Eckey", "Ecdsa"},
      allowed_curves |-> {"Curve25519", "SecP256K1", "SecP256R1", "SecP384R1", "SecP521R1"},
      rsa_min_bitlen |-> RsaMinBits ]

KEY_CERT_SIGN == "keyCertSign"
CRL_SIGN == "cRLSign"

(***************************************************************************)
(* The certificates and CRLs the inputs are drawn from.  A key is named by *)
(* its id; `signer` is the id of the key that made the signature.          *)
(***************************************************************************)
RsaKey(id) == [id |-> id, type |-> "Rsa", bits |-> 2048, curve |-> "none"]
EcKey(id) == [id |-> id, type |-> "Eckey", bits |-> 256, curve |-> "SecP256R1"]

CertNames == {"Root", "Inter", "Leaf", "Forged", "WeakLeaf", "PlainEE"}

CertOf(name) ==
    CASE name = "Root" ->
           [ raw |-> "Root", subject |-> "R", issuer |-> "R", serial |-> 1,
             pk |-> RsaKey("kR"), sig_md |-> "Sha256", sig_pk |-> "Rsa", signer |-> "kR",
             ca_istrue |-> TRUE, ext_key_usage |-> TRUE,
             key_usage |-> {KEY_CERT_SIGN, CRL_SIGN} ]
      [] name = "Inter" ->
           [ raw |-> "Inter", subject |-> "I", issuer |-> "R", serial |-> 2,
             pk |-> EcKey("kI"), sig_md |-> "Sha256", sig_pk |-> "Rsa", signer |-> "kR",
             ca_istrue |-> TRUE, ext_key_usage |-> TRUE,
             key_usage |-> {KEY_CERT_SIGN, CRL_SIGN} ]
      [] name = "Leaf" ->
           [ raw |-> "Leaf", subject |-> "L", issuer |-> "I", serial |-> 3,
             pk |-> EcKey("kL"), sig_md |-> "Sha256", sig_pk |-> "Ecdsa", signer |-> "kI",
             ca_istrue |-> FALSE, ext_key_usage |-> TRUE,
             key_usage |-> {"digitalSignature"} ]
      \* names Inter as its issuer, signed by a key that is not Inter's
      [] name = "Forged" ->
           [ raw |-> "Forged", subject |-> "F", issuer |-> "I", serial |-> 4,
             pk |-> EcKey("kX"), sig_md |-> "Sha256", sig_pk |-> "Ecdsa", signer |-> "kX",
             ca_istrue |-> FALSE, ext_key_usage |-> TRUE,
             key_usage |-> {"digitalSignature"} ]
      \* signed by Inter with a hash outside the profile
      [] name = "WeakLeaf" ->
           [ raw |-> "WeakLeaf", subject |-> "W", issuer |-> "I", serial |-> 5,
             pk |-> EcKey("kW"), sig_md |-> "Sha1", sig_pk |-> "Ecdsa", signer |-> "kI",
             ca_istrue |-> FALSE, ext_key_usage |-> TRUE,
             key_usage |-> {"digitalSignature"} ]
      \* an end-entity certificate signed by Inter, without a keyUsage extension
      [] name = "PlainEE" ->
           [ raw |-> "PlainEE", subject |-> "P", issuer |-> "I", serial |-> 6,
             pk |-> EcKey("kP"), sig_md |-> "Sha256", sig_pk |-> "Ecdsa", signer |-> "kI",
             ca_istrue |-> FALSE, ext_key_usage |-> FALSE,
             key_usage |-> {} ]

CrlNames == {"RootCRL", "RootCRLRevInter", "InterCRLRevLeaf", "BadSigInterCRL"}

CrlOf(name) ==
    CASE name = "RootCRL" ->
           [ raw |-> "RootCRL", issuer |-> "R", sig_md |-> "Sha256", sig_pk |-> "Rsa",
             signer |-> "kR", revoked |-> {} ]
      [] name = "RootCRLRevInter" ->
           [ raw |-> "RootCRLRevInter", issuer |-> "R", sig_md |-> "Sha256", sig_pk |-> "Rsa",
             signer |-> "kR", revoked |-> {2} ]
      [] name = "InterCRLRevLeaf" ->
           [ raw |-> "InterCRLRevLeaf", issuer |-> "I", sig_md |-> "Sha256", sig_pk |-> "Ecdsa",
             signer |-> "kI", revoked |-> {3} ]
      \* well-formed, names Inter as its issuer, signed by a key that is not Inter's
      [] name = "BadSigInterCRL" ->
           [ raw |-> "BadSigInterCRL", issuer |-> "I", sig_md |-> "Sha256", sig_pk |-> "Ecdsa",
             signer |-> "kX", revoked |-> {} ]

(***************************************************************************)
(* Encoded entries: a whole encoding of an object, or one with its first   *)
(* byte cut off (the tests' &X[1..]).                                      *)
(***************************************************************************)
Whole(name) == [form |-> "whole", name |-> name]
Truncated(name) == [form |-> "truncated", name |-> name]

CertEntries == {Whole(n) : n \in CertNames} \cup {Truncated("Root")}
AnchorEntries == {Whole("Root"), Whole("Inter"), Truncated("Root")}
CrlEntries == {Whole(n) : n \in CrlNames} \cup {Truncated("RootCRL")}

SeqUpTo(S, n) == UNION {[1..k -> S] : k \in 0..n}

(***************************************************************************)
(* Decoding.                                                               *)
(***************************************************************************)
Certificate_from_der(der) ==
    IF der.form = "whole" THEN Ok(CertOf(der.name)) ELSE Err

\* the string is null terminated and handed to the same parser
Certificate_from_pem(pem) ==
    IF pem.form = "whole" THEN Ok(CertOf(pem.name)) ELSE Err

\* Crl::push_from_der parses the bytes; no issuer key is at hand
Crl_parse_der(der) ==
    IF der.form = "whole" THEN Ok(CrlOf(der.name)) ELSE Err

Crl_parse_pem(pem) ==
    IF pem.form = "whole" THEN Ok(CrlOf(pem.name)) ELSE Err

(***************************************************************************)
(* Constructors.                                                           *)
(***************************************************************************)
TrustAnchor_try_from_pem(pem) ==
    LET cert == Certificate_from_pem(pem)
    IN  IF cert.st = "err" THEN Err ELSE Ok(<<cert.val>>)

TrustAnchor_try_from_der(der) ==
    LET cert == Certificate_from_der(der)
    IN  IF cert.st = "err" THEN Err ELSE Ok(<<cert.val>>)

\* the for loop of UnverifiedCertChain::try_from_pem, from entry i on
RECURSIVE chain_pem_loop(_, _, _)
chain_pem_loop(pems, i, certs) ==
    IF i > Len(pems) THEN Ok(certs)
    ELSE LET cert == Certificate_from_pem(pems[i])
         IN  IF cert.st = "err" THEN Err
             ELSE chain_pem_loop(pems, i + 1, Append(certs, cert.val))

UnverifiedCertChain_try_from_pem(pems) == chain_pem_loop(pems, 1, <<>>)

RECURSIVE chain_der_loop(_, _, _)
chain_der_loop(ders, i, certs) ==
    IF i > Len(ders) THEN Ok(certs)
    ELSE LET cert == Certificate_from_der(ders[i])
         IN  IF cert.st = "err" THEN Err
             ELSE chain_der_loop(ders, i + 1, Append(certs, cert.val))

\* a mutant: a malformed entry is skipped instead of ending the call
RECURSIVE chain_der_skip_loop(_, _, _)
chain_der_skip_loop(ders, i, certs) ==
    IF i > Len(ders) THEN Ok(certs)
    ELSE LET cert == Certificate_from_der(ders[i])
         IN  IF cert.st = "err" THEN chain_der_skip_loop(ders, i + 1, certs)
             ELSE chain_der_skip_loop(ders, i + 1, Append(certs, cert.val))

chain_der_skipping(ders) == chain_der_skip_loop(ders, 1, <<>>)

UnverifiedCertChain_try_from_der(ders) == chain_der_loop(ders, 1, <<>>)

RECURSIVE crl_pem_loop(_, _, _)
crl_pem_loop(pems, i, list) ==
    IF i > Len(pems) THEN Ok(list)
    ELSE LET parsed == Crl_parse_pem(pems[i])
         IN  IF parsed.st = "err" THEN Err
             ELSE crl_pem_loop(pems, i + 1, Append(list, parsed.val))

CertificateRevocationList_try_from_pem(pems) == crl_pem_loop(pems, 1, <<>>)

RECURSIVE crl_der_loop(_, _, _)
crl_der_loop(ders, i, list) ==
    IF i > Len(ders) THEN Ok(list)
    ELSE LET parsed == Crl_parse_der(ders[i])
         IN  IF parsed.st = "err" THEN Err
             ELSE crl_der_loop(ders, i + 1, Append(list, parsed.val))

CertificateRevocationList_try_from_der(ders) == crl_der_loop(ders, 1, <<>>)

(***************************************************************************)
(* Certificate::verify_with_profile.                                       *)
(***************************************************************************)
x509_profile_check_md_alg(profile, md) == md \in profile.allowed_mds

x509_profile_check_pk_alg(profile, pk_alg) == pk_alg \in profile.allowed_pks

x509_profile_check_key(profile, pk) ==
    IF pk.type = "Rsa" THEN pk.bits >= profile.rsa_min_bitlen
    ELSE IF pk.type \in {"Eckey", "Ecdsa"} THEN pk.curve \in profile.allowed_curves
    ELSE FALSE

\* Certificate::check_key_usage: a certificate without the keyUsage
\* extension passes for every usage
check_key_usage(crt, usage) ==
    (~crt.ext_key_usage) \/ (usage \in crt.key_usage)

pk_can_do(pk, sig_pk) ==
    IF pk.type = "Rsa" THEN sig_pk = "Rsa" ELSE sig_pk \in {"Eckey", "Ecdsa"}

x509_crt_check_signature(child, parent) ==
    pk_can_do(parent.pk, child.sig_pk) /\ child.signer = parent.pk.id

x509_crt_check_parent(child, parent) ==
    /\ child.issuer = parent.subject
    /\ parent.ca_istrue
    /\ check_key_usage(parent, KEY_CERT_SIGN)

MinOf(S) == CHOOSE k \in S : \A m \in S : k <= m

\* index of the parent among the candidates, 0 when there is none; among
\* trusted candidates (top) a parent is taken only with a good signature
x509_crt_find_parent_in(child, candidates, top) ==
    LET S == { k \in 1..Len(candidates) :
                 /\ x509_crt_check_parent(child, candidates[k])
                 /\ (top => x509_crt_check_signature(child, candidates[k])) }
    IN  IF S = {} THEN 0 ELSE MinOf(S)

NoParent == [found |-> FALSE, trusted |-> FALSE, idx |-> 0]

\* the trusted list first, then the certificates after the child in the chain
x509_crt_find_parent(chain, i, trust_ca) ==
    LET t == x509_crt_find_parent_in(chain[i], trust_ca, TRUE)
        j == x509_crt_find_parent_in(chain[i], SubSeq(chain, i + 1, Len(chain)), FALSE)
    IN  IF t # 0 THEN [found |-> TRUE, trusted |-> TRUE, idx |-> t]
        ELSE IF j # 0 THEN [found |-> TRUE, trusted |-> FALSE, idx |-> i + j]
        ELSE NoParent

x509_crt_check_ee_locally_trusted(crt, trust_ca) ==
    /\ crt.issuer = crt.subject
    /\ \E k \in 1..Len(trust_ca) : trust_ca[k].raw = crt.raw

\* the loop over the CRL list, from entry k on, with the flags so far
RECURSIVE verifycrl_loop(_, _, _, _, _, _)
verifycrl_loop(crt, ca, crl_list, profile, k, flags) ==
    IF k > Len(crl_list) THEN flags
    ELSE LET c == crl_list[k] IN
         IF c.issuer # ca.subject
           THEN verifycrl_loop(crt, ca, crl_list, profile, k + 1, flags)
         ELSE IF ~check_key_usage(ca, CRL_SIGN)
           THEN flags \cup {"BADCRL_NOT_TRUSTED"}
         ELSE LET f1 == flags
                        \cup (IF x509_profile_check_md_alg(profile, c.sig_md)
                                THEN {} ELSE {"BADCRL_BAD_MD"})
                        \cup (IF x509_profile_check_pk_alg(profile, c.sig_pk)
                                THEN {} ELSE {"BADCRL_BAD_PK"})
                        \cup (IF x509_profile_check_key(profile, ca.pk)
                                THEN {} ELSE {"BADCERT_BAD_KEY"})
              IN  IF ~(pk_can_do(ca.pk, c.sig_pk) /\ c.signer = ca.pk.id)
                    THEN f1 \cup {"BADCRL_NOT_TRUSTED"}
                  ELSE IF crt.serial \in c.revoked
                    THEN f1 \cup {"BADCERT_REVOKED"}
                  ELSE verifycrl_loop(crt, ca, crl_list, profile, k + 1, f1)

\* a mutant: a CA without a CRL in the list leaves the status undetermined
verifycrl_strict(crt, ca, crl_list, profile) ==
    IF \A k \in 1..Len(crl_list) : crl_list[k].issuer # ca.subject
      THEN {"BADCRL_MISSING"}
    ELSE verifycrl_loop(crt, ca, crl_list, profile, 1, {})

x509_crt_verifycrl(crt, ca, crl_list, profile) ==
    verifycrl_loop(crt, ca, crl_list, profile, 1, {})

\* the walk from chain[i]: the flags raised and the chain indices visited
RECURSIVE x509_crt_verify_chain(_, _, _, _, _)
x509_crt_verify_chain(chain, i, trust_ca, crl_list, profile) ==
    LET child == chain[i]
        alg == (IF x509_profile_check_md_alg(profile, child.sig_md)
                  THEN {} ELSE {"BADCERT_BAD_MD"})
               \cup (IF x509_profile_check_pk_alg(profile, child.sig_pk)
                       THEN {} ELSE {"BADCERT_BAD_PK"})
        p == x509_crt_find_parent(chain, i, trust_ca)
        parent == IF p.trusted THEN trust_ca[p.idx] ELSE chain[p.idx]
        link == alg
                \cup (IF x509_crt_check_signature(child, parent)
                        THEN {} ELSE {"BADCERT_NOT_TRUSTED"})
                \cup (IF x509_profile_check_key(profile, parent.pk)
                        THEN {} ELSE {"BADCERT_BAD_KEY"})
                \cup x509_crt_verifycrl(child, parent, crl_list, profile)
    IN  IF i = 1 /\ x509_crt_check_ee_locally_trusted(child, trust_ca)
          THEN [flags |-> alg, path |-> {i}, anchored |-> TRUE]
        ELSE IF ~p.found
          THEN [flags |-> alg \cup {"BADCERT_NOT_TRUSTED"}, path |-> {i}, anchored |-> FALSE]
        ELSE IF p.trusted
          THEN [flags |-> link, path |-> {i}, anchored |-> TRUE]
        ELSE LET rest == x509_crt_verify_chain(chain, p.idx, trust_ca, crl_list, profile)
             IN  [flags |-> link \cup rest.flags, path |-> {i} \cup rest.path,
                  anchored |-> rest.anchored]

\* the flags of the whole call: the key of the first certificate, then the walk
x509_crt_verify(chain, trust_ca, crl_list, profile) ==
    LET crt == chain[1]
        ee_flags == (IF x509_profile_check_pk_alg(profile, crt.pk.type)
                       THEN {} ELSE {"BADCERT_BAD_PK"})
                    \cup (IF x509_profile_check_key(profile, crt.pk)
                            THEN {} ELSE {"BADCERT_BAD_KEY"})
        walk == x509_crt_verify_chain(chain, 1, trust_ca, crl_list, profile)
    IN  [flags |-> ee_flags \cup walk.flags, path |-> walk.path, anchored |-> walk.anchored]

\* Ok(()) or an error; an empty chain is bad input
Certificate_verify_with_profile(chain, trust_ca, crl_list, profile) ==
    IF chain = <<>> THEN FALSE
    ELSE x509_crt_verify(chain, trust_ca, crl_list, profile).flags = {}

UnverifiedCertChain_verify(self, anchor, revocations) ==
    IF Certificate_verify_with_profile(self, anchor, revocations, Profile)
      THEN Ok(self)
      ELSE Err

(***************************************************************************)
(* VerifiedCertChain::leaf.                                                *)
(***************************************************************************)
as_der(cert) == Whole(cert.raw)

\* the x509-cert decoding of the same bytes
X509Certificate_from_der(der) ==
    IF der.form = "whole"
      THEN LET c == CertOf(der.name)
           IN  Ok([ der |-> der.name,
                    tbs_certificate |-> [ subject |-> c.subject, issuer |-> c.issuer,
                                          serial_number |-> c.serial ] ])
      ELSE Err

RECURSIVE leaf_loop(_, _)
leaf_loop(certs, i) ==
    IF i > Len(certs) THEN None
    ELSE IF check_key_usage(certs[i], KEY_CERT_SIGN) THEN leaf_loop(certs, i + 1)
    ELSE Some(X509Certificate_from_der(as_der(certs[i])).val)

VerifiedCertChain_leaf(self) == leaf_loop(self, 1)

(***************************************************************************)
(* The program: the three objects are built, in any order, verify is       *)
(* called once on them, and leaf() is called on a verified chain.          *)
(***************************************************************************)
Init ==
    /\ anchor_in = Unset
    /\ chain_in = Unset
    /\ crl_in = Unset
    /\ trust_anchor = Unset
    /\ cert_chain = Unset
    /\ crl = Unset
    /\ verified = Unset
    /\ leaf_out = Unset

AnchorFromPem ==
    /\ trust_anchor.st = "unset"
    /\ \E pem \in AnchorEntries :
         /\ anchor_in' = Ok(pem)
         /\ trust_anchor' = TrustAnchor_try_from_pem(pem)
    /\ UNCHANGED <<chain_in, crl_in, cert_chain, crl, verified, leaf_out>>

AnchorFromDer ==
    /\ trust_anchor.st = "unset"
    /\ \E der \in AnchorEntries :
         /\ anchor_in' = Ok(der)
         /\ trust_anchor' = TrustAnchor_try_from_der(der)
    /\ UNCHANGED <<chain_in, crl_in, cert_chain, crl, verified, leaf_out>>

ChainFromPem ==
    /\ cert_chain.st = "unset"
    /\ \E pems \in SeqUpTo(CertEntries, MaxChain) :
         /\ chain_in' = Ok(pems)
         /\ cert_chain' = UnverifiedCertChain_try_from_pem(pems)
    /\ UNCHANGED <<anchor_in, crl_in, trust_anchor, crl, verified, leaf_out>>

ChainFromDer ==
    /\ cert_chain.st = "unset"
    /\ \E ders \in SeqUpTo(CertEntries, MaxChain) :
         /\ chain_in' = Ok(ders)
         /\ cert_chain' = UnverifiedCertChain_try_from_der(ders)
    /\ UNCHANGED <<anchor_in, crl_in, trust_anchor, crl, verified, leaf_out>>

CrlFromPem ==
    /\ crl.st = "unset"
    /\ \E pems \in SeqUpTo(CrlEntries, MaxCrls) :
         /\ crl_in' = Ok(pems)
         /\ crl' = CertificateRevocationList_try_from_pem(pems)
    /\ UNCHANGED <<anchor_in, chain_in, trust_anchor, cert_chain, verified, leaf_out>>

CrlFromDer ==
    /\ crl.st = "unset"
    /\ \E ders \in SeqUpTo(CrlEntries, MaxCrls) :
         /\ crl_in' = Ok(ders)
         /\ crl' = CertificateRevocationList_try_from_der(ders)
    /\ UNCHANGED <<anchor_in, chain_in, trust_anchor, cert_chain, verified, leaf_out>>

Verify ==
    /\ trust_anchor.st = "ok"
    /\ cert_chain.st = "ok"
    /\ crl.st = "ok"
    /\ verified.st = "unset"
    /\ verified' = UnverifiedCertChain_verify(cert_chain.val, trust_anchor.val, crl.val)
    /\ UNCHANGED <<anchor_in, chain_in, crl_in, trust_anchor, cert_chain, crl, leaf_out>>

Leaf ==
    /\ verified.st = "ok"
    /\ leaf_out' = VerifiedCertChain_leaf(verified.val)
    /\ UNCHANGED <<anchor_in, chain_in, crl_in, trust_anchor, cert_chain, crl, verified>>

Next ==
    \/ AnchorFromPem
    \/ AnchorFromDer
    \/ ChainFromPem
    \/ ChainFromDer
    \/ CrlFromPem
    \/ CrlFromDer
    \/ Verify
    \/ Leaf

Spec == Init /\ [][Next]_vars

(***************************************************************************)
(* Vocabulary of the properties.                                           *)
(***************************************************************************)
Called == verified.st # "unset"
Accepted == verified.st = "ok"
Chain == cert_chain.val
Anchor == trust_anchor.val
Crls == crl.val

IsAnchorCert(c) == \E k \in 1..Len(Anchor) : Anchor[k].raw = c.raw

\* the keyCertSign bit of the keyUsage extension is asserted
AssertsKeyCertSign(c) == c.ext_key_usage /\ KEY_CERT_SIGN \in c.key_usage

\* c carries a signature by the key of `by`, named as its issuer, with
\* algorithms and key inside the profile
SignedBy(c, by) ==
    /\ c.issuer = by.subject
    /\ c.signer = by.pk.id
    /\ c.sig_md \in {"Sha256", "Sha384", "Sha512"}
    /\ c.sig_pk \in {"Rsa", "Eckey", "Ecdsa"}
    /\ (by.pk.type = "Rsa" => by.pk.bits >= 2048)

\* the CRL names c's issuer and lists c's serial number
ListedIn(c, list) == list.issuer = c.issuer /\ c.serial \in list.revoked

\* the chain indices verify walked through, from the first certificate on
Path == x509_crt_verify(Chain, Anchor, Crls, Profile).path

Malformed(entries) == \E i \in 1..Len(entries) : entries[i].form # "whole"

RECURSIVE Perms(_)
Perms(s) ==
    IF Len(s) <= 1 THEN {s}
    ELSE UNION { { <<s[i]>> \o t :
                     t \in Perms(SubSeq(s, 1, i - 1) \o SubSeq(s, i + 1, Len(s))) }
                 : i \in 1..Len(s) }

(***************************************************************************)
(* C1: whenever verify returns Ok, every certificate of the returned chain *)
(* that is not a trust anchor, at every position of the list, carries a    *)
(* signature that validates, inside the profile, under the key of another  *)
(* certificate of the chain or of the anchor.                              *)
(***************************************************************************)
C1_EverySignatureValid ==
    Accepted =>
        \A i \in 1..Len(verified.val) :
            LET c == verified.val[i] IN
            ~IsAnchorCert(c) =>
                \/ \E j \in (1..Len(verified.val)) \ {i} : SignedBy(c, verified.val[j])
                \/ \E k \in 1..Len(Anchor) : SignedBy(c, Anchor[k])

(***************************************************************************)
(* C2: the verdict of verify for a certificate set, anchor and CRL set     *)
(* does not depend on the order in which the certificates were supplied.   *)
(***************************************************************************)
C2_OrderIndependent ==
    Called =>
        \A q \in Perms(Chain) :
            UnverifiedCertChain_verify(q, Anchor, Crls).st = verified.st

(***************************************************************************)
(* C3: no certificate of a returned VerifiedCertChain, the anchor aside,   *)
(* has its serial number listed in a supplied CRL of its issuer.           *)
(***************************************************************************)
C3_NoRevokedMember ==
    Accepted =>
        \A i \in 1..Len(verified.val) :
            ~IsAnchorCert(verified.val[i]) =>
                \A k \in 1..Len(Crls) : ~ListedIn(verified.val[i], Crls[k])

(***************************************************************************)
(* C4: a chain of only the leaf and the root, the intermediate absent from *)
(* chain and anchor, fails verify with the root as anchor, for any CRLs.   *)
(***************************************************************************)
C4_MissingIntermediateFails ==
    ( /\ Called
      /\ Anchor = <<CertOf("Root")>>
      /\ Len(Chain) = 2
      /\ {Chain[1].raw, Chain[2].raw} = {"Leaf", "Root"} )
    => verified.st = "err"

(***************************************************************************)
(* C5: a missing CRL is accepted.  verify returns Ok exactly when the walk *)
(* from the first certificate ends at the anchor with every link signed    *)
(* inside the profile and every certificate on it clean in the CRLs of its *)
(* issuer; a certificate on the path whose issuer has no CRL in the list   *)
(* counts as not revoked, so that absence alone never fails the call.      *)
(***************************************************************************)
ParentOf(i) ==
    LET p == x509_crt_find_parent(Chain, i, Anchor)
    IN  IF p.trusted THEN Anchor[p.idx] ELSE Chain[p.idx]

IsTerminal(i) == i = 1 /\ Chain[1].issuer = Chain[1].subject /\ IsAnchorCert(Chain[1])

AlgsInProfile(c) ==
    c.sig_md \in {"Sha256", "Sha384", "Sha512"} /\ c.sig_pk \in {"Rsa", "Eckey", "Ecdsa"}

OtherwiseValid ==
    /\ Chain # <<>>
    /\ x509_crt_verify(Chain, Anchor, <<>>, Profile).anchored
    /\ \A i \in Path :
         /\ AlgsInProfile(Chain[i])
         /\ ~IsTerminal(i) => SignedBy(Chain[i], ParentOf(i))

ApplicableCrls(i) == { k \in 1..Len(Crls) : Crls[k].issuer = Chain[i].issuer }

C5_MissingCrlAccepted ==
    Called =>
        ( Accepted <=>
            /\ OtherwiseValid
            /\ \A i \in Path :
                 (~IsTerminal(i) /\ ApplicableCrls(i) # {}) =>
                     x509_crt_verifycrl(Chain[i], ParentOf(i), Crls, Profile) = {} )

\* verify returned Ok for leaf, intermediate and root with only the root's CRL
C5_Witness ==
    /\ Accepted
    /\ Len(Chain) = 3
    /\ Chain[1].raw = "Leaf"
    /\ Path = {1, 2}
    /\ Crls = <<CrlOf("RootCRL")>>
    /\ ApplicableCrls(1) = {}

(***************************************************************************)
(* C6: leaf() returns the first certificate, in list order, whose          *)
(* keyCertSign key-usage bit is not asserted, and None exactly when every  *)
(* certificate of the chain asserts keyCertSign.                           *)
(***************************************************************************)
C6_LeafIsFirstWithoutKeyCertSign ==
    (Accepted /\ leaf_out.st # "unset") =>
        LET S == { i \in 1..Len(verified.val) : ~AssertsKeyCertSign(verified.val[i]) }
        IN  IF S = {} THEN leaf_out.st = "none"
            ELSE /\ leaf_out.st = "some"
                 /\ leaf_out.val.der = verified.val[MinOf(S)].raw

(***************************************************************************)
(* C7: in every VerifiedCertChain returned by verify at most one           *)
(* certificate lacks the keyCertSign bit.                                  *)
(***************************************************************************)
C7_AtMostOneLeaf ==
    Accepted =>
        Cardinality({ i \in 1..Len(verified.val) :
                        ~AssertsKeyCertSign(verified.val[i]) }) <= 1

(***************************************************************************)
(* C8: construction is all-or-nothing.  Each constructor returns an error, *)
(* and no object, when some entry is malformed, at whatever position; when *)
(* every entry is well-formed the result holds one element per entry, in   *)
(* input order.                                                            *)
(***************************************************************************)
BuiltFrom(result, entries) ==
    IF Malformed(entries) THEN result = Err
    ELSE /\ result.st = "ok"
         /\ Len(result.val) = Len(entries)
         /\ \A i \in 1..Len(entries) : result.val[i].raw = entries[i].name

C8_AllOrNothing ==
    /\ anchor_in.st = "ok" => BuiltFrom(trust_anchor, <<anchor_in.val>>)
    /\ chain_in.st = "ok" => BuiltFrom(cert_chain, chain_in.val)
    /\ crl_in.st = "ok" => BuiltFrom(crl, crl_in.val)

\* a chain call that met its malformed entry last, beside a CRL list built
\* from two entries and a failed anchor
C8_Witness ==
    /\ chain_in.st = "ok"
    /\ Len(chain_in.val) = MaxChain
    /\ \A i \in 1..(MaxChain - 1) : chain_in.val[i].form = "whole"
    /\ chain_in.val[MaxChain].form = "truncated"
    /\ cert_chain = Err
    /\ crl.st = "ok"
    /\ Len(crl.val) = 2
    /\ crl.val[1].raw # crl.val[2].raw
    /\ trust_anchor = Err

(***************************************************************************)
(* C9: a CRL whose own signature is invalid cannot be built into a         *)
(* CertificateRevocationList: every CRL of a built list carries a          *)
(* signature by the key of the CA it names as its issuer.                  *)
(***************************************************************************)
CrlSignatureValid(list) ==
    \E n \in CertNames :
        /\ CertOf(n).ca_istrue
        /\ CertOf(n).subject = list.issuer
        /\ CertOf(n).pk.id = list.signer

C9_BadCrlSignatureNotBuilt ==
    crl.st = "ok" => \A k \in 1..Len(crl.val) : CrlSignatureValid(crl.val[k])

(***************************************************************************)
(* C10: whenever leaf() returns Some(c) on a verified chain, c is a        *)
(* certificate whose own signature path to the anchor verify checked.      *)
(***************************************************************************)
C10_LeafWasVerified ==
    (Accepted /\ leaf_out.st = "some") =>
        \E i \in Path : Chain[i].raw = leaf_out.val.der

====
